---- MODULE Spec2Model ----
(***************************************************************************)
(* The transaction ledger of src/src/sqlite.rs: the transactions and       *)
(* contracts tables, the create_contract_trigger with its scalar function  *)
(* derive_contract_address, insert_transaction's unit of work and the      *)
(* getters of Transactions and Contracts.                                  *)
(*                                                                         *)
(* A store is one in-memory connection (initialize_db).  Every variable is *)
(* a function over Stores, so that two independent connections can be      *)
(* compared; specification Spec drives store 1 alone.                      *)
(***************************************************************************)
EXTENDS Integers, Sequences, FiniteSets, TLC

\* ------------------------------------------------------------------ bounds

\* Committed transaction rows per store (the AUTOINCREMENT counter is capped
\* here; SQLite's own cap is 2^63 - 1).
MaxTx == 2

\* The ids 0..MaxDeriveId are handed to derive_contract_address on its own;
\* they reach past one byte of the salt.
MaxDeriveId == 300

\* Addresses in a list handed to the list codec.
MaxList == 3

Stores == {1, 2}

\* ------------------------------------------------------- program constants

\* An address is 20 bytes (AddressSqlite::column_result, chunks_exact(20)).
AddressLen == 20
\* keccak256 yields 32 bytes; the salt is 32 bytes.
WordLen == 32
\* [12..] of the final hash.
AddressOffset == 12
\* The byte pushed in front of the CREATE2 buffer.
Create2Prefix == 255
\* The first byte of the deployer 0x4000...00; the other 19 are zero.
DeployerFirstByte == 64
\* i64::to_be_bytes gives 8 bytes.
SaltIdLen == 8
\* A u8 holds 0..255.
Byte == 256
\* The getters read ids into an i32.
I32Max == 2147483647

\* --------------------------------------------------------------- helpers

Zeros(n) == [i \in 1..n |-> 0]

\* n shifted right by k bytes.
RECURSIVE ShiftBytes(_, _)
ShiftBytes(n, k) == IF k = 0 THEN n ELSE ShiftBytes(n \div Byte, k - 1)

\* The largest rowid of a table, 0 for an empty one.
MaxRowid(table) ==
    IF table = <<>> THEN 0
    ELSE CHOOSE m \in {table[i].id : i \in 1..Len(table)} :
             \A i \in 1..Len(table) : table[i].id <= m

\* ---------------------------------------------------------- address codec

\* Address::from_str("0x00..0n"): 19 zero bytes and the byte n.
Addr(n) == Zeros(AddressLen - 1) \o <<n>>

\* ToSql for AddressSqlite: the 20 bytes as a BLOB.
AddressToSql(a) == a

\* FromSql for AddressSqlite: a BLOB of exactly 20 bytes, else InvalidType.
AddressFromSql(blob) ==
    IF Len(blob) # AddressLen
    THEN [ok |-> FALSE, v |-> <<>>]
    ELSE [ok |-> TRUE, v |-> blob]

\* ToSql for AddressSqliteList: the flat concatenation of the 20-byte values.
RECURSIVE AddressListToSql(_)
AddressListToSql(list) ==
    IF list = <<>> THEN <<>>
    ELSE Head(list) \o AddressListToSql(Tail(list))

RECURSIVE Chunks(_)
Chunks(bytes) ==
    IF Len(bytes) < AddressLen THEN <<>>
    ELSE <<SubSeq(bytes, 1, AddressLen)>>
         \o Chunks(SubSeq(bytes, AddressLen + 1, Len(bytes)))

\* chunks_exact(20) without the length test: the bytes after the last whole
\* chunk are dropped.
AddressListFromSqlTruncating(blob) == [ok |-> TRUE, v |-> Chunks(blob)]

\* FromSql for AddressSqliteList: a length that is no multiple of 20 is
\* InvalidType; otherwise the 20-byte chunks in order.
AddressListFromSql(blob) ==
    IF Len(blob) % AddressLen # 0
    THEN [ok |-> FALSE, v |-> <<>>]
    ELSE [ok |-> TRUE, v |-> Chunks(blob)]

\* ------------------------------------------------------- transaction type

TransactionType ==
    {"CreateToken", "AddTokenSigner", "RemoveTokenSigner", "SetDefaultTokenURI",
     "SetTokenURIPerId", "Mint", "Transfer", "Burn", "Approve", "SetApprovalForAll"}

\* ToSql for TransactionType: the variant's name (strum::Display).
TransactionTypeToSql(t) == t

\* FromSql for TransactionType: the text parsed back (strum::EnumString).
TransactionTypeFromSql(text) ==
    IF text \in TransactionType
    THEN [ok |-> TRUE, v |-> text]
    ELSE [ok |-> FALSE, v |-> ""]

\* ------------------------------------------------------ address derivation

\* alloy's keccak256 stands outside the repository.  The model keeps what the
\* code relies on: a function of the input bytes alone, 32 bytes long, that
\* separates the buffers built for different transaction ids.  Byte k of the
\* digest is a position-weighted sum of the input bytes.
RECURSIVE WeightedSum(_, _, _, _)
WeightedSum(bytes, lo, hi, k) ==
    IF lo > hi THEN 0
    ELSE IF lo = hi THEN (bytes[lo] * (lo + k)) % Byte
    ELSE LET mid == (lo + hi) \div 2
         IN (WeightedSum(bytes, lo, mid, k) + WeightedSum(bytes, mid + 1, hi, k)) % Byte

Keccak256(bytes) ==
    [k \in 1..WordLen |-> (Len(bytes) + WeightedSum(bytes, 1, Len(bytes), k)) % Byte]

\* i64::to_be_bytes for a non-negative id.
ToBeBytes(n) ==
    [i \in 1..SaltIdLen |-> ShiftBytes(n, SaltIdLen - i) % Byte]

Deployer == <<DeployerFirstByte>> \o Zeros(AddressLen - 1)

InitCode == Zeros(WordLen)

\* keccak256(&init_code)
InitCodeHash == Keccak256(InitCode)

\* salt[31] = transaction_id as u8: the lowest byte of the id alone.
SaltLowByte(transaction_id) ==
    Zeros(WordLen - 1) \o <<transaction_id % Byte>>

\* salt[24..32] = transaction_id.to_be_bytes(), the rest zero.
Salt(transaction_id) == Zeros(WordLen - SaltIdLen) \o ToBeBytes(transaction_id)

\* buffer = 0xff ++ deployer ++ salt ++ keccak256(init_code)
Create2Buffer(transaction_id) ==
    <<Create2Prefix>> \o Deployer \o Salt(transaction_id) \o InitCodeHash

\* keccak256(&buffer)[12..]: the last 20 bytes of the hash.
Create2Address(transaction_id) ==
    SubSeq(Keccak256(Create2Buffer(transaction_id)), AddressOffset + 1, WordLen)

\* The addresses of the ids a store of MaxTx rows can hand out, computed once.
DerivedAddresses == [n \in 0..(MaxTx + 2) |-> Create2Address(n)]

\* NEW.id salted with a constant: what the scalar function would return if it
\* did not read its argument.
derive_contract_address_unsalted(transaction_id) == DerivedAddresses[0]

\* The scalar function derive_contract_address(NEW.id).
derive_contract_address(transaction_id) ==
    IF transaction_id \in DOMAIN DerivedAddresses
    THEN DerivedAddresses[transaction_id]
    ELSE Create2Address(transaction_id)

\* ------------------------------------------------------------------ inputs

Senders == {Addr(1), Addr(2)}

\* The kinds the callers of the model use: the trigger's kind and one other.
Kinds == {"CreateToken", "Mint"}

Timestamps == {1000, 1001}

\* "0x" as bytes (the tests' payload).
HexPrefix == <<48, 120>>

\* The Transactions records a caller passes to insert_transaction: every
\* sender, kind and timestamp with the id 0 the tests pass, and records with
\* another id and an empty payload.
TxInputs ==
    [id : {0}, sender : Senders, transaction_type : Kinds,
     data : {HexPrefix}, timestamp : Timestamps]
    \cup
    [id : {7}, sender : {Addr(1)}, transaction_type : Kinds,
     data : {<<>>}, timestamp : {1000}]

\* The narrower set used when two stores are driven side by side.
PairInputs ==
    [id : {0}, sender : Senders, transaction_type : Kinds,
     data : {HexPrefix}, timestamp : {1000}]

\* What the first of two stores compared for their addresses receives: one
\* sender, one payload, one timestamp.
TwinInputs ==
    [id : {0}, sender : {Addr(1)}, transaction_type : Kinds,
     data : {<<>>}, timestamp : {1000}]

\* What the second receives: CreateToken transactions with another
\* timestamp, or another payload, or another sender, or all three.
OtherTwinInputs ==
    [id : {0}, sender : {Addr(1)}, transaction_type : {"CreateToken"},
     data : {<<>>}, timestamp : {1001}]
    \cup [id : {0}, sender : {Addr(1)}, transaction_type : {"CreateToken"},
          data : {HexPrefix}, timestamp : {1000}]
    \cup [id : {0}, sender : {Addr(2)}, transaction_type : {"CreateToken"},
          data : {<<>>}, timestamp : {1000}]
    \cup [id : {0}, sender : {Addr(2)}, transaction_type : {"CreateToken"},
          data : {HexPrefix}, timestamp : {1001}]

NoArg ==
    [id |-> 0, sender |-> <<>>, transaction_type |-> "", data |-> <<>>,
     timestamp |-> 0]

\* ------------------------------------------------------------------- state

VARIABLES
    transactions,     \* table transactions, in rowid order, as the connection sees it
    contracts,        \* table contracts, in rowid order, as the connection sees it
    sqlite_sequence,  \* the AUTOINCREMENT counters of the two tables
    pc,               \* where insert_transaction stands: idle, started, inserted, executed
    arg,              \* the record insert_transaction was called with
    journal,          \* the tables as they were when the unit of work began
    last,             \* what the most recent call on the connection returned
    before,           \* the tables as they were when the most recent insert was called
    hist              \* the calls that committed, in order, without their id field

vars ==
    <<transactions, contracts, sqlite_sequence, pc, arg, journal, last, before, hist>>

Tables(s) ==
    [transactions |-> transactions[s], contracts |-> contracts[s],
     sqlite_sequence |-> sqlite_sequence[s]]

EmptyTables ==
    [transactions |-> <<>>, contracts |-> <<>>,
     sqlite_sequence |-> [transactions |-> 0, contracts |-> 0]]

NoCall == [op |-> "none", arg |-> NoArg, ok |-> TRUE, err |-> "", rows |-> <<>>]

\* The caller's record without the id field.
Payload(t) ==
    [sender |-> t.sender, transaction_type |-> t.transaction_type,
     data |-> t.data, timestamp |-> t.timestamp]

\* initialize_db: an in-memory database with the two tables empty.
Init ==
    /\ transactions = [s \in Stores |-> <<>>]
    /\ contracts = [s \in Stores |-> <<>>]
    /\ sqlite_sequence = [s \in Stores |-> [transactions |-> 0, contracts |-> 0]]
    /\ pc = [s \in Stores |-> "idle"]
    /\ arg = [s \in Stores |-> NoArg]
    /\ journal = [s \in Stores |-> EmptyTables]
    /\ last = [s \in Stores |-> NoCall]
    /\ before = [s \in Stores |-> EmptyTables]
    /\ hist = [s \in Stores |-> <<>>]

\* ------------------------------------------------------------ the schema

\* INTEGER PRIMARY KEY AUTOINCREMENT: one more than the largest rowid the table
\* holds or has ever been given (sqlite_sequence).
NextRowid(table, seq) ==
    LET m == MaxRowid(table) IN (IF m > seq THEN m ELSE seq) + 1

\* contracts.address UNIQUE and contracts.transaction_id UNIQUE: the name of the
\* constraint the new row breaks, or "" when it breaks none.
UniqueViolation(table, row) ==
    IF \E i \in 1..Len(table) : table[i].address = row.address
    THEN "UNIQUE constraint failed: contracts.address"
    ELSE IF \E i \in 1..Len(table) : table[i].transaction_id = row.transaction_id
    THEN "UNIQUE constraint failed: contracts.transaction_id"
    ELSE ""

\* WHEN NEW.transaction_type = 'Mint': the trigger bound to another kind.
TriggerWhenMint(new) == new.transaction_type = "Mint"

\* WHEN NEW.transaction_type = 'CreateToken'
TriggerWhen(new) == new.transaction_type = "CreateToken"

\* The VALUES clause with the contract's own id in the transaction_id column.
TriggerRowOwnId(new, table, seq) ==
    [id |-> NextRowid(table, seq),
     address |-> derive_contract_address(new.id),
     signers |-> new.sender,
     transaction_id |-> NextRowid(table, seq)]

\* The VALUES clause with the deployer in the signers column.
TriggerRowDeployerSigns(new, table, seq) ==
    [id |-> NextRowid(table, seq),
     address |-> derive_contract_address(new.id),
     signers |-> AddressToSql(Deployer),
     transaction_id |-> new.id]

\* The VALUES clause with NEW.sender as the deployer of the CREATE2 buffer.
TriggerRowSenderDeploys(new, table, seq) ==
    [id |-> NextRowid(table, seq),
     address |-> SubSeq(Keccak256(<<Create2Prefix>> \o new.sender
                                      \o Salt(new.id) \o InitCodeHash),
                        AddressOffset + 1, WordLen),
     signers |-> new.sender,
     transaction_id |-> new.id]

\* VALUES (derive_contract_address(NEW.id), NEW.sender, NEW.id), with the
\* contract's own id given by AUTOINCREMENT.
TriggerRow(new, table, seq) ==
    [id |-> NextRowid(table, seq),
     address |-> derive_contract_address(new.id),
     signers |-> new.sender,
     transaction_id |-> new.id]

\* The row INSERT INTO transactions (sender, transaction_type, data, timestamp)
\* writes with the caller's id instead of the store's.
TransactionRowCallerId(t, table, seq) ==
    [id |-> t.id,
     sender |-> AddressToSql(t.sender),
     transaction_type |-> TransactionTypeToSql(t.transaction_type),
     data |-> t.data,
     timestamp |-> t.timestamp]

\* The row INSERT INTO transactions (sender, transaction_type, data, timestamp)
\* VALUES (?1, ?2, ?3, ?4) writes: the id is the store's, the caller's is not bound.
TransactionRow(t, table, seq) ==
    [id |-> NextRowid(table, seq),
     sender |-> AddressToSql(t.sender),
     transaction_type |-> TransactionTypeToSql(t.transaction_type),
     data |-> t.data,
     timestamp |-> t.timestamp]

\* ------------------------------------------------------ insert_transaction

InsertLast(t, ok, err) ==
    [op |-> "insert_transaction", arg |-> t, ok |-> ok, err |-> err, rows |-> <<>>]

\* A rollback that puts back the transactions table and its counter only.
RollbackTransactionsOnly(s, err) ==
    /\ transactions' = [transactions EXCEPT ![s] = journal[s].transactions]
    /\ sqlite_sequence' = [sqlite_sequence EXCEPT ![s] = journal[s].sqlite_sequence]
    /\ pc' = [pc EXCEPT ![s] = "idle"]
    /\ last' = [last EXCEPT ![s] = InsertLast(arg[s], FALSE, err)]
    /\ arg' = [arg EXCEPT ![s] = NoArg]
    /\ journal' = [journal EXCEPT ![s] = EmptyTables]
    /\ UNCHANGED <<contracts, before, hist>>

\* A rollback that puts back the rows and leaves sqlite_sequence as it stands.
RollbackKeepsSequence(s, err) ==
    /\ transactions' = [transactions EXCEPT ![s] = journal[s].transactions]
    /\ contracts' = [contracts EXCEPT ![s] = journal[s].contracts]
    /\ pc' = [pc EXCEPT ![s] = "idle"]
    /\ last' = [last EXCEPT ![s] = InsertLast(arg[s], FALSE, err)]
    /\ arg' = [arg EXCEPT ![s] = NoArg]
    /\ journal' = [journal EXCEPT ![s] = EmptyTables]
    /\ UNCHANGED <<sqlite_sequence, before, hist>>

\* `?` returns the error and drops tx: the unit of work is rolled back, which
\* puts back every table (sqlite_sequence is one of them).
Rollback(s, err) ==
    /\ transactions' = [transactions EXCEPT ![s] = journal[s].transactions]
    /\ contracts' = [contracts EXCEPT ![s] = journal[s].contracts]
    /\ sqlite_sequence' = [sqlite_sequence EXCEPT ![s] = journal[s].sqlite_sequence]
    /\ pc' = [pc EXCEPT ![s] = "idle"]
    /\ last' = [last EXCEPT ![s] = InsertLast(arg[s], FALSE, err)]
    /\ arg' = [arg EXCEPT ![s] = NoArg]
    /\ journal' = [journal EXCEPT ![s] = EmptyTables]
    /\ UNCHANGED <<before, hist>>

\* let tx = conn.transaction()?  succeeds: the unit of work is open.
BeginTransaction(s, t) ==
    /\ pc[s] = "idle"
    /\ Len(transactions[s]) < MaxTx
    /\ pc' = [pc EXCEPT ![s] = "started"]
    /\ arg' = [arg EXCEPT ![s] = t]
    /\ journal' = [journal EXCEPT ![s] = Tables(s)]
    /\ before' = [before EXCEPT ![s] = Tables(s)]
    /\ last' = [last EXCEPT ![s] = NoCall]
    /\ UNCHANGED <<transactions, contracts, sqlite_sequence, hist>>

\* let tx = conn.transaction()?  fails: the error is returned, nothing was opened.
BeginFails(s, t) ==
    /\ pc[s] = "idle"
    /\ before' = [before EXCEPT ![s] = Tables(s)]
    /\ last' = [last EXCEPT ![s] = InsertLast(t, FALSE, "SqliteError: begin")]
    /\ UNCHANGED <<transactions, contracts, sqlite_sequence, pc, arg, journal, hist>>

\* INSERT OR REPLACE: the row is written over the newest row of the table.
InsertRowReplacing(s) ==
    /\ pc[s] = "started"
    /\ LET row == TransactionRow(arg[s], transactions[s],
                                 sqlite_sequence[s].transactions)
           kept == IF transactions[s] = <<>> THEN <<>>
                   ELSE SubSeq(transactions[s], 1, Len(transactions[s]) - 1)
       IN /\ transactions' = [transactions EXCEPT ![s] = Append(kept, row)]
          /\ sqlite_sequence' =
                 [sqlite_sequence EXCEPT ![s].transactions = row.id]
    /\ pc' = [pc EXCEPT ![s] = "inserted"]
    /\ UNCHANGED <<contracts, arg, journal, last, before, hist>>

\* tx.execute("INSERT INTO transactions ..."): the row is written.
InsertRow(s) ==
    /\ pc[s] = "started"
    /\ LET row == TransactionRow(arg[s], transactions[s],
                                 sqlite_sequence[s].transactions)
       IN /\ transactions' = [transactions EXCEPT ![s] = Append(@, row)]
          /\ sqlite_sequence' =
                 [sqlite_sequence EXCEPT ![s].transactions = row.id]
    /\ pc' = [pc EXCEPT ![s] = "inserted"]
    /\ UNCHANGED <<contracts, arg, journal, last, before, hist>>

\* The trigger on a contracts table declared without its UNIQUE columns, with
\* the address salted by a constant.
create_contract_trigger_unchecked(s) ==
    /\ pc[s] = "inserted"
    /\ LET new == transactions[s][Len(transactions[s])]
           row == [TriggerRow(new, contracts[s], sqlite_sequence[s].contracts)
                       EXCEPT !.address = derive_contract_address_unsalted(new.id)]
       IN IF ~TriggerWhen(new)
          THEN /\ pc' = [pc EXCEPT ![s] = "executed"]
               /\ UNCHANGED <<transactions, contracts, sqlite_sequence, arg,
                              journal, last, before, hist>>
          ELSE /\ contracts' = [contracts EXCEPT ![s] = Append(@, row)]
               /\ sqlite_sequence' =
                      [sqlite_sequence EXCEPT ![s].contracts = row.id]
               /\ pc' = [pc EXCEPT ![s] = "executed"]
               /\ UNCHANGED <<transactions, arg, journal, last, before, hist>>

\* create_contract_trigger, AFTER INSERT ON transactions, inside the same
\* statement: NEW is the row just written.
create_contract_trigger(s) ==
    /\ pc[s] = "inserted"
    /\ LET new == transactions[s][Len(transactions[s])]
           row == TriggerRow(new, contracts[s], sqlite_sequence[s].contracts)
           broken == UniqueViolation(contracts[s], row)
       IN IF ~TriggerWhen(new)
          THEN /\ pc' = [pc EXCEPT ![s] = "executed"]
               /\ UNCHANGED <<transactions, contracts, sqlite_sequence, arg,
                              journal, last, before, hist>>
          ELSE IF broken # ""
          THEN Rollback(s, "SqliteError: " \o broken)
          ELSE /\ contracts' = [contracts EXCEPT ![s] = Append(@, row)]
               /\ sqlite_sequence' =
                      [sqlite_sequence EXCEPT ![s].contracts = row.id]
               /\ pc' = [pc EXCEPT ![s] = "executed"]
               /\ UNCHANGED <<transactions, arg, journal, last, before, hist>>

\* A commit that does not wait for the statement and its trigger to finish.
CommitEarly(s) ==
    /\ pc[s] \in {"inserted", "executed"}
    /\ pc' = [pc EXCEPT ![s] = "idle"]
    /\ last' = [last EXCEPT ![s] = InsertLast(arg[s], TRUE, "")]
    /\ hist' = [hist EXCEPT ![s] = Append(@, Payload(arg[s]))]
    /\ arg' = [arg EXCEPT ![s] = NoArg]
    /\ journal' = [journal EXCEPT ![s] = EmptyTables]
    /\ UNCHANGED <<transactions, contracts, sqlite_sequence, before>>

\* tx.commit()? succeeds: the rows written are kept and Ok(()) is returned.
Commit(s) ==
    /\ pc[s] = "executed"
    /\ pc' = [pc EXCEPT ![s] = "idle"]
    /\ last' = [last EXCEPT ![s] = InsertLast(arg[s], TRUE, "")]
    /\ hist' = [hist EXCEPT ![s] = Append(@, Payload(arg[s]))]
    /\ arg' = [arg EXCEPT ![s] = NoArg]
    /\ journal' = [journal EXCEPT ![s] = EmptyTables]
    /\ UNCHANGED <<transactions, contracts, sqlite_sequence, before>>

\* The store fails tx.execute or tx.commit (out of memory, a full database):
\* the error is returned through `?` and the unit of work is rolled back.
StoreFails(s) ==
    /\ pc[s] \in {"started", "inserted", "executed"}
    /\ Rollback(s, IF pc[s] = "executed" THEN "SqliteError: commit"
                   ELSE "SqliteError: execute")

\* What is committed: the tables themselves, or, while a unit of work is open,
\* the tables as they were when it began.
Committed(s) == IF pc[s] = "idle" THEN Tables(s) ELSE journal[s]

\* ----------------------------------------------------------------- getters

\* row.get::<_, i32>: an INTEGER outside the i32 range is an error.
FitsI32(n) == -I32Max - 1 <= n /\ n <= I32Max

\* TryFrom<&Row> for Contracts
ContractsTryFrom(row) ==
    LET address == AddressFromSql(row.address)
        signers == AddressListFromSql(row.signers)
    IN IF FitsI32(row.id) /\ address.ok /\ signers.ok /\ FitsI32(row.transaction_id)
       THEN [ok |-> TRUE,
             v |-> [id |-> row.id, address |-> address.v, signers |-> signers.v,
                    transaction_id |-> row.transaction_id]]
       ELSE [ok |-> FALSE, v |-> row]

\* TryFrom<&Row> for Transactions
TransactionsTryFrom(row) ==
    LET sender == AddressFromSql(row.sender)
        type == TransactionTypeFromSql(row.transaction_type)
    IN IF FitsI32(row.id) /\ sender.ok /\ type.ok
       THEN [ok |-> TRUE,
             v |-> [id |-> row.id, sender |-> sender.v, transaction_type |-> type.v,
                    data |-> row.data, timestamp |-> row.timestamp]]
       ELSE [ok |-> FALSE, v |-> row]

Found(rows) == [ok |-> TRUE, err |-> "", rows |-> rows]

Failed(err) == [ok |-> FALSE, err |-> err, rows |-> <<>>]

\* conn.query_row(sql, params, f): f applied to the first row the SELECT
\* yields; no row is QueryReturnedNoRows.
QueryRow(decoded) ==
    IF decoded = <<>> THEN Failed("QueryReturnedNoRows")
    ELSE IF decoded[1].ok THEN Found(<<decoded[1].v>>)
    ELSE Failed("InvalidColumnType")

\* stmt.query_map(params, f)?.collect::<Result<Vec<_>, _>>(): f applied to
\* every row the SELECT yields, in the order of the scan; a row that does not
\* decode is the error.
QueryMap(decoded) ==
    IF \E i \in 1..Len(decoded) : ~decoded[i].ok
    THEN Failed("InvalidColumnType")
    ELSE Found([i \in 1..Len(decoded) |-> decoded[i].v])

\* The closure |row| Ok(Self::try_from(row)?) over the rows a SELECT yields.
ContractsRows(selected) ==
    [i \in 1..Len(selected) |-> ContractsTryFrom(selected[i])]

TransactionsRows(selected) ==
    [i \in 1..Len(selected) |-> TransactionsTryFrom(selected[i])]

\* SELECT * FROM contracts WHERE id = ?
Contracts_get_by_id(table, id) ==
    LET Where(row) == row.id = id
    IN QueryRow(ContractsRows(SelectSeq(table, Where)))

\* SELECT * FROM contracts WHERE address = ?
Contracts_get_by_address(table, address) ==
    LET Where(row) == row.address = AddressToSql(address)
    IN QueryRow(ContractsRows(SelectSeq(table, Where)))

\* SELECT * FROM contracts WHERE id = ?: the lookup by transaction id reading
\* the contract's own id column.
Contracts_get_by_transaction_id_own_id(table, tx_id) ==
    LET Where(row) == row.id = tx_id
    IN QueryRow(ContractsRows(SelectSeq(table, Where)))

\* SELECT * FROM contracts WHERE transaction_id = ?
Contracts_get_by_transaction_id(table, tx_id) ==
    LET Where(row) == row.transaction_id = tx_id
    IN QueryRow(ContractsRows(SelectSeq(table, Where)))

\* SELECT * FROM transactions WHERE id = ? + 1: the lookup counting ids from 0.
Transactions_get_by_id_zero_based(table, id) ==
    LET Where(row) == row.id = id + 1
    IN QueryRow(TransactionsRows(SelectSeq(table, Where)))

\* SELECT * FROM transactions WHERE id = ?
Transactions_get_by_id(table, id) ==
    LET Where(row) == row.id = id
    IN QueryRow(TransactionsRows(SelectSeq(table, Where)))

\* SELECT * FROM transactions WHERE sender = ? ORDER BY id DESC
Transactions_get_by_sender_newest_first(table, sender) ==
    LET Where(row) == row.sender = AddressToSql(sender)
        found == TransactionsRows(SelectSeq(table, Where))
    IN QueryMap([i \in 1..Len(found) |-> found[Len(found) + 1 - i]])

\* SELECT * FROM transactions WHERE sender = ?
Transactions_get_by_sender(table, sender) ==
    LET Where(row) == row.sender = AddressToSql(sender)
    IN QueryMap(TransactionsRows(SelectSeq(table, Where)))

\* SELECT * FROM transactions WHERE transaction_type = ?
Transactions_get_by_type(table, tx_type) ==
    LET Where(row) == row.transaction_type = TransactionTypeToSql(tx_type)
    IN QueryMap(TransactionsRows(SelectSeq(table, Where)))

\* ... WHERE transaction_type = :type OR sender = :sender
Transactions_get_by_type_or_sender(table, tx_type, sender) ==
    LET Where(row) ==
            \/ row.transaction_type = TransactionTypeToSql(tx_type)
            \/ row.sender = AddressToSql(sender)
    IN QueryMap(TransactionsRows(SelectSeq(table, Where)))

\* SELECT * FROM transactions WHERE transaction_type = :type AND sender = :sender
Transactions_get_by_type_and_sender(table, tx_type, sender) ==
    LET Where(row) ==
            /\ row.transaction_type = TransactionTypeToSql(tx_type)
            /\ row.sender = AddressToSql(sender)
    IN QueryMap(TransactionsRows(SelectSeq(table, Where)))

\* ... AND timestamp >= :ts: the comparison made inclusive.
Transactions_get_by_type_after_timestamp_inclusive(table, tx_type, timestamp) ==
    LET Where(row) ==
            /\ row.transaction_type = TransactionTypeToSql(tx_type)
            /\ row.timestamp >= timestamp
    IN QueryMap(TransactionsRows(SelectSeq(table, Where)))

\* SELECT * FROM transactions WHERE transaction_type = :type AND timestamp > :ts
Transactions_get_by_type_after_timestamp(table, tx_type, timestamp) ==
    LET Where(row) ==
            /\ row.transaction_type = TransactionTypeToSql(tx_type)
            /\ row.timestamp > timestamp
    IN QueryMap(TransactionsRows(SelectSeq(table, Where)))

\* The ids, addresses and timestamps the callers of the model ask for.
QueryIds == 0..(MaxTx + 1)

QueryAddresses == Senders \cup {derive_contract_address(n) : n \in 1..MaxTx}

QueryTimestamps == {999} \cup Timestamps

QueryArg(id, address, tx_type, timestamp) ==
    [id |-> id, sender |-> address, transaction_type |-> tx_type, data |-> <<>>,
     timestamp |-> timestamp]

\* A getter called on the connection while no unit of work is open (the
\* connection is borrowed mutably for the whole of insert_transaction).
Answer(s, op, a, r) ==
    /\ pc[s] = "idle"
    /\ last' = [last EXCEPT ![s] =
                    [op |-> op, arg |-> a, ok |-> r.ok, err |-> r.err, rows |-> r.rows]]
    /\ UNCHANGED <<transactions, contracts, sqlite_sequence, pc, arg, journal,
                   before, hist>>

ContractById(s) ==
    \E id \in QueryIds :
        Answer(s, "Contracts::get_by_id", QueryArg(id, <<>>, "", 0),
               Contracts_get_by_id(contracts[s], id))

ContractByAddress(s) ==
    \E a \in QueryAddresses :
        Answer(s, "Contracts::get_by_address", QueryArg(0, a, "", 0),
               Contracts_get_by_address(contracts[s], a))

ContractByTransactionId(s) ==
    \E id \in QueryIds :
        Answer(s, "Contracts::get_by_transaction_id", QueryArg(id, <<>>, "", 0),
               Contracts_get_by_transaction_id(contracts[s], id))

TransactionById(s) ==
    \E id \in QueryIds :
        Answer(s, "Transactions::get_by_id", QueryArg(id, <<>>, "", 0),
               Transactions_get_by_id(transactions[s], id))

TransactionsBySender(s) ==
    \E a \in Senders :
        Answer(s, "Transactions::get_by_sender", QueryArg(0, a, "", 0),
               Transactions_get_by_sender(transactions[s], a))

TransactionsByType(s) ==
    \E k \in Kinds :
        Answer(s, "Transactions::get_by_type", QueryArg(0, <<>>, k, 0),
               Transactions_get_by_type(transactions[s], k))

TransactionsByTypeAndSender(s) ==
    \E k \in Kinds, a \in Senders :
        Answer(s, "Transactions::get_by_type_and_sender", QueryArg(0, a, k, 0),
               Transactions_get_by_type_and_sender(transactions[s], k, a))

TransactionsByTypeAfterTimestamp(s) ==
    \E k \in Kinds, ts \in QueryTimestamps :
        Answer(s, "Transactions::get_by_type_after_timestamp",
               QueryArg(0, <<>>, k, ts),
               Transactions_get_by_type_after_timestamp(transactions[s], k, ts))

\* ---------------------------------------------------------- specifications

Insert(s, inputs) ==
    \/ \E t \in inputs : BeginTransaction(s, t)
    \/ \E t \in inputs : BeginFails(s, t)
    \/ InsertRow(s)
    \/ create_contract_trigger(s)
    \/ Commit(s)
    \/ StoreFails(s)

Query(s) ==
    \/ ContractById(s)
    \/ ContractByAddress(s)
    \/ ContractByTransactionId(s)
    \/ TransactionById(s)
    \/ TransactionsBySender(s)
    \/ TransactionsByType(s)
    \/ TransactionsByTypeAndSender(s)
    \/ TransactionsByTypeAfterTimestamp(s)

\* One connection: inserts and getters on store 1.
Next == Insert(1, TxInputs) \/ Query(1)

Spec == Init /\ [][Next]_vars

\* Two connections, each to a database of its own, receiving inserts.
NextPair == \E s \in Stores : Insert(s, PairInputs)

SpecPair == Init /\ [][NextPair]_vars

\* Two connections, each to a database of its own, receiving inserts that
\* differ in sender, data or timestamp.
NextTwin == Insert(1, TwinInputs) \/ Insert(2, OtherTwinInputs)

SpecTwin == Init /\ [][NextTwin]_vars

\* The addresses of the lists: two that differ in their last byte and one
\* that differs in its first.
CodecAddresses == Senders \cup {Deployer}

AddressLists == UNION {[1..n -> CodecAddresses] : n \in 0..MaxList}

\* The BLOBs read back: every beginning of every encoded list, whole or cut
\* inside an address.
Blobs ==
    UNION {{SubSeq(AddressListToSql(list), 1, n) :
                n \in 0..(Len(list) * AddressLen)} : list \in AddressLists}

\* AddressSqliteList(list).to_sql()
ListToSql(s) ==
    \E list \in AddressLists :
        Answer(s, "AddressSqliteList::to_sql", [NoArg EXCEPT !.data = list],
               Found(<<AddressListToSql(list)>>))

\* AddressSqliteList::column_result(ValueRef::Blob(blob))
ListFromSql(s) ==
    \E blob \in Blobs :
        LET r == AddressListFromSql(blob)
        IN Answer(s, "AddressSqliteList::column_result",
                  [NoArg EXCEPT !.data = blob],
                  IF r.ok THEN Found(<<r.v>>) ELSE Failed("InvalidType"))

\* The list codec alone.
NextCodec == ListToSql(1) \/ ListFromSql(1)

SpecCodec == Init /\ [][NextCodec]_vars

\* The ids the scalar function is called with: a run across the first byte
\* boundary of the salt and the boundaries of the next bytes.
DeriveIds ==
    (0..MaxDeriveId) \cup {65535, 65536, 16777215, 16777216, I32Max}

\* SELECT derive_contract_address(?) on the connection.
Derive(s) ==
    \E n \in DeriveIds :
        Answer(s, "derive_contract_address", QueryArg(n, <<>>, "", 0),
               Found(<<derive_contract_address(n)>>))

\* The scalar function alone, on one connection.
NextDerive == Derive(1)

SpecDerive == Init /\ [][NextDerive]_vars

\* One connection receiving inserts. insert_transaction is straight-line code
\* with no loop and no wait: once it has begun, its statement runs, the trigger
\* runs and the commit is attempted, unless an error returns before.
NextUnit == Insert(1, TxInputs)

SpecUnit ==
    /\ Init /\ [][NextUnit]_vars
    /\ WF_vars(InsertRow(1))
    /\ WF_vars(create_contract_trigger(1))
    /\ WF_vars(Commit(1))

\* ------------------------------------------------------------------ claims

Range(f) == {f[i] : i \in DOMAIN f}

IsInsert(s) == last[s].op = "insert_transaction"

LastRow(table) == table[Len(table)]

\* C1: in every committed state, each transaction of kind CreateToken has
\* exactly one contract row whose transaction_id is its id, and a transaction of
\* any other kind has none.
C1_OneContractPerCreateToken ==
    \A s \in Stores :
        LET T == Committed(s).transactions
            C == Committed(s).contracts
        IN \A i \in 1..Len(T) :
               Cardinality({j \in 1..Len(C) : C[j].transaction_id = T[i].id})
                   = IF T[i].transaction_type = "CreateToken" THEN 1 ELSE 0

\* A committed store holding a CreateToken transaction and one of another kind.
C1_Witness ==
    /\ pc[1] = "idle"
    /\ \E i, j \in 1..Len(transactions[1]) :
           /\ transactions[1][i].transaction_type = "CreateToken"
           /\ transactions[1][j].transaction_type = "Mint"
    /\ Len(contracts[1]) = 1

\* C2: after an insert_transaction that returned an error, the transactions
\* and contracts tables are what they were when it was called.
C2_FailureRollsBack ==
    \A s \in Stores :
        (IsInsert(s) /\ ~last[s].ok) =>
            /\ pc[s] = "idle"
            /\ transactions[s] = before[s].transactions
            /\ contracts[s] = before[s].contracts

\* A CreateToken insert into a non-empty store that failed at commit, after the
\* transaction row and the contract row had been written.
C2_Witness ==
    /\ IsInsert(1) /\ ~last[1].ok
    /\ last[1].err = "SqliteError: commit"
    /\ last[1].arg.transaction_type = "CreateToken"
    /\ Len(transactions[1]) = 1

\* C4: a commit adds one transaction row, whose id is one more than the largest
\* committed id (so positive, above every earlier id, given to no other row),
\* whatever id the caller's record carried.
C4_IdsAssignedByStore ==
    [][\A s \in Stores :
           Committed(s)' # Committed(s) =>
               LET T == Committed(s).transactions
                   U == Committed(s)'.transactions
               IN /\ Len(U) = Len(T) + 1
                  /\ SubSeq(U, 1, Len(T)) = T
                  /\ LastRow(U).id = MaxRowid(T) + 1
                  /\ LastRow(U).id > 0
                  /\ \A i \in 1..Len(T) : T[i].id < LastRow(U).id]_vars

\* A second committed insert, whose caller passed id 7 and whose row got id 2.
C4_Witness ==
    /\ IsInsert(1) /\ last[1].ok
    /\ last[1].arg.id = 7
    /\ Len(transactions[1]) = 2
    /\ LastRow(transactions[1]).id = 2

\* C5: after a successful insert of a CreateToken transaction with sender s,
\* the contracts table has gained one row, whose transaction_id is the id given
\* to the new transaction row and whose signers decode to the list [s]; when
\* the tables were empty before, the transaction's id is 1, the contract's id
\* is 1 and its transaction_id is 1.
C5_CreateTokenCreatesContract ==
    \A s \in Stores :
        (IsInsert(s) /\ last[s].ok /\ last[s].arg.transaction_type = "CreateToken") =>
            LET T == transactions[s]
                C == contracts[s]
                new == LastRow(T)
            IN /\ Len(T) = Len(before[s].transactions) + 1
               /\ Len(C) = Len(before[s].contracts) + 1
               /\ SubSeq(C, 1, Len(C) - 1) = before[s].contracts
               /\ LastRow(C).transaction_id = new.id
               /\ AddressListFromSql(LastRow(C).signers)
                      = [ok |-> TRUE, v |-> <<last[s].arg.sender>>]
               /\ (before[s].transactions = <<>> =>
                       /\ new.id = 1
                       /\ LastRow(C).id = 1
                       /\ LastRow(C).transaction_id = 1)

\* A CreateToken insert that committed after a Mint: the contract's own id (1)
\* differs from its transaction_id (2).
C5_Witness ==
    /\ IsInsert(1) /\ last[1].ok
    /\ last[1].arg.transaction_type = "CreateToken"
    /\ Len(transactions[1]) = 2
    /\ transactions[1][1].transaction_type = "Mint"
    /\ Len(contracts[1]) = 1

\* C6: in every reachable state no two contract rows share an address and no
\* two share a transaction_id.
C6_ContractsUnique ==
    \A s \in Stores :
        \A i, j \in 1..Len(contracts[s]) :
            i # j =>
                /\ contracts[s][i].address # contracts[s][j].address
                /\ contracts[s][i].transaction_id # contracts[s][j].transaction_id

\* Two contract rows are in the table.
C6_Witness ==
    /\ Len(contracts[1]) = 2
    /\ pc[1] = "idle"

\* C8: two stores whose committed calls are the same sequence hold the same
\* transactions table and the same contracts table: same ids, same addresses.
C8_SameCallsSameTables ==
    hist[1] = hist[2] =>
        /\ Committed(1).transactions = Committed(2).transactions
        /\ Committed(1).contracts = Committed(2).contracts

\* Both stores committed the same two calls, a CreateToken among them, though
\* the latest call failed on store 1 and succeeded on store 2.
C8_Witness ==
    /\ hist[1] = hist[2]
    /\ Len(hist[1]) = 2
    /\ \E i \in 1..2 : hist[1][i].transaction_type = "CreateToken"
    /\ pc[1] = "idle" /\ pc[2] = "idle"
    /\ IsInsert(1) /\ ~last[1].ok
    /\ IsInsert(2) /\ last[2].ok

\* C9: for every contract row c of a committed store, the getters by c.id, by
\* c.address and by c.transaction_id each return that row, decoded.
C9_ContractGettersAgree ==
    \A s \in Stores :
        pc[s] = "idle" =>
            \A i \in 1..Len(contracts[s]) :
                LET c == contracts[s][i]
                    d == ContractsTryFrom(c)
                IN /\ d.ok
                   /\ Contracts_get_by_id(contracts[s], c.id) = Found(<<d.v>>)
                   /\ Contracts_get_by_address(contracts[s], d.v.address)
                          = Found(<<d.v>>)
                   /\ Contracts_get_by_transaction_id(contracts[s], c.transaction_id)
                          = Found(<<d.v>>)

\* The getter by transaction id answered with a contract whose own id is not
\* its transaction_id.
C9_Witness ==
    /\ last[1].op = "Contracts::get_by_transaction_id"
    /\ last[1].ok
    /\ last[1].rows[1].transaction_id = last[1].arg.id
    /\ last[1].rows[1].id # last[1].arg.id

\* C10: the getter by kind and timestamp returns, once each, the decoded
\* committed transactions of that kind whose timestamp is greater than the one
\* given, and none whose timestamp equals it.
C10_AfterTimestampIsStrict ==
    \A s \in Stores :
        pc[s] = "idle" =>
            \A k \in Kinds, ts \in QueryTimestamps :
                LET T == transactions[s]
                    r == Transactions_get_by_type_after_timestamp(T, k, ts)
                    want == {i \in 1..Len(T) :
                                 T[i].transaction_type = k /\ T[i].timestamp > ts}
                IN /\ r.ok
                   /\ Len(r.rows) = Cardinality(want)
                   /\ Range(r.rows) = {TransactionsTryFrom(T[i]).v : i \in want}
                   /\ \A j \in 1..Len(r.rows) :
                          /\ r.rows[j].transaction_type = k
                          /\ r.rows[j].timestamp # ts
                          /\ r.rows[j].timestamp > ts

\* The getter answered with one row while a committed transaction of the same
\* kind carries exactly the timestamp asked for.
C10_Witness ==
    /\ last[1].op = "Transactions::get_by_type_after_timestamp"
    /\ last[1].ok
    /\ Len(last[1].rows) = 1
    /\ \E i \in 1..Len(transactions[1]) :
           /\ transactions[1][i].transaction_type = last[1].arg.transaction_type
           /\ transactions[1][i].timestamp = last[1].arg.timestamp

\* a is the beginning of b.
IsPrefix(a, b) == Len(a) <= Len(b) /\ SubSeq(b, 1, Len(a)) = a

\* C11: the getter by sender returns the decoded committed transactions whose
\* sender is the one asked for, each once, in ascending order of their ids.
C11_BySenderInInsertionOrder ==
    \A s \in Stores :
        pc[s] = "idle" =>
            \A a \in Senders :
                LET T == transactions[s]
                    r == Transactions_get_by_sender(T, a)
                    want == {i \in 1..Len(T) : T[i].sender = a}
                IN /\ r.ok
                   /\ Len(r.rows) = Cardinality(want)
                   /\ Range(r.rows) = {TransactionsTryFrom(T[i]).v : i \in want}
                   /\ \A j \in 1..Len(r.rows) : r.rows[j].sender = a
                   /\ \A j, k \in 1..Len(r.rows) :
                          j < k => r.rows[j].id < r.rows[k].id

\* The getter answered with the two transactions of one sender.
C11_Witness ==
    /\ last[1].op = "Transactions::get_by_sender"
    /\ last[1].ok
    /\ Len(last[1].rows) = 2
    /\ last[1].rows[1].id = 1
    /\ last[1].rows[2].id = 2

\* C12: the getter by kind returns exactly the decoded committed transactions of
\* that kind, and the getter by kind and sender exactly those that have both the
\* kind and the sender, each once.
C12_ByKindAndByKindAndSender ==
    \A s \in Stores :
        pc[s] = "idle" =>
            LET T == transactions[s] IN
            /\ \A k \in Kinds :
                   LET r == Transactions_get_by_type(T, k)
                       want == {i \in 1..Len(T) : T[i].transaction_type = k}
                   IN /\ r.ok
                      /\ Len(r.rows) = Cardinality(want)
                      /\ Range(r.rows) = {TransactionsTryFrom(T[i]).v : i \in want}
            /\ \A k \in Kinds, a \in Senders :
                   LET r == Transactions_get_by_type_and_sender(T, k, a)
                       want == {i \in 1..Len(T) :
                                    T[i].transaction_type = k /\ T[i].sender = a}
                   IN /\ r.ok
                      /\ Len(r.rows) = Cardinality(want)
                      /\ Range(r.rows) = {TransactionsTryFrom(T[i]).v : i \in want}

\* The getter by kind and sender answered with one row of a table that also
\* holds a row of the same sender and another kind.
C12_Witness ==
    /\ last[1].op = "Transactions::get_by_type_and_sender"
    /\ last[1].ok
    /\ Len(last[1].rows) = 1
    /\ \E i \in 1..Len(transactions[1]) :
           /\ transactions[1][i].sender = last[1].arg.sender
           /\ transactions[1][i].transaction_type # last[1].arg.transaction_type

\* C13: no step removes or changes a committed row: the committed tables after
\* a step begin with the committed tables before it, and a step that is not a
\* commit (a failed insert, a getter) leaves them as they are.
C13_CommittedRowsStay ==
    [][\A s \in Stores :
           /\ IsPrefix(Committed(s).transactions, Committed(s)'.transactions)
           /\ IsPrefix(Committed(s).contracts, Committed(s)'.contracts)
           /\ hist'[s] = hist[s] =>
                  /\ Committed(s)'.transactions = Committed(s).transactions
                  /\ Committed(s)'.contracts = Committed(s).contracts]_vars

\* A store with two committed transactions and a contract, after an insert
\* that failed.
C13_Witness ==
    /\ IsInsert(1) /\ ~last[1].ok
    /\ Len(transactions[1]) = 2
    /\ Len(contracts[1]) = 1
    /\ pc[1] = "idle"

\* C14: the getter of a transaction by id answers QueryReturnedNoRows exactly
\* when no committed transaction has that id, and the getter of a contract by
\* transaction id exactly when the id is not that of a committed CreateToken
\* transaction; otherwise each answers with a row, never with the decoding
\* error InvalidColumnType.
C14_NotFoundExactly ==
    \A s \in Stores :
        pc[s] = "idle" =>
            \A id \in QueryIds :
                LET T == transactions[s]
                    t == Transactions_get_by_id(T, id)
                    c == Contracts_get_by_transaction_id(contracts[s], id)
                    exists == \E i \in 1..Len(T) : T[i].id = id
                    created == \E i \in 1..Len(T) :
                                   /\ T[i].id = id
                                   /\ T[i].transaction_type = "CreateToken"
                IN /\ (t.err = "QueryReturnedNoRows") <=> ~exists
                   /\ exists => (t.ok /\ t.rows[1].id = id)
                   /\ (c.err = "QueryReturnedNoRows") <=> ~created
                   /\ created => (c.ok /\ c.rows[1].transaction_id = id)
                   /\ t.err # "InvalidColumnType"
                   /\ c.err # "InvalidColumnType"

\* The getter of a contract by transaction id answered QueryReturnedNoRows for
\* the id of a committed transaction that is not a CreateToken.
C14_Witness ==
    /\ last[1].op = "Contracts::get_by_transaction_id"
    /\ ~last[1].ok
    /\ last[1].err = "QueryReturnedNoRows"
    /\ \E i \in 1..Len(transactions[1]) :
           /\ transactions[1][i].id = last[1].arg.id
           /\ transactions[1][i].transaction_type = "Mint"

\* The steps pc may take: a unit of work begins, writes its row, has the
\* trigger run, and ends; an error ends it from any stage.
UnitOrder ==
    {<<"idle", "started">>, <<"started", "inserted">>,
     <<"inserted", "executed">>, <<"executed", "idle">>,
     <<"started", "idle">>, <<"inserted", "idle">>}

\* C17: a unit of work goes from started to its transaction row inserted, to
\* its trigger executed, to its end. A contract row is written only after the
\* transaction row of the same unit and only for a CreateToken; a unit ends
\* either committed (from the last stage only, with its rows kept, a
\* CreateToken's contract among them) or rolled back (the tables as they were
\* when it began), never both; and every unit that started ends.
C17_UnitOfWorkOrder ==
    /\ [][\A s \in Stores :
              /\ pc'[s] # pc[s] => <<pc[s], pc'[s]>> \in UnitOrder
              /\ Len(contracts'[s]) > Len(contracts[s]) =>
                     /\ pc[s] = "inserted" /\ pc'[s] = "executed"
                     /\ Len(transactions[s]) = Len(journal[s].transactions) + 1
                     /\ LastRow(transactions[s]).transaction_type = "CreateToken"
                     /\ LastRow(contracts'[s]).transaction_id
                            = LastRow(transactions[s]).id
              /\ (pc[s] = "inserted" /\ pc'[s] = "executed"
                      /\ LastRow(transactions[s]).transaction_type # "CreateToken")
                     => contracts'[s] = contracts[s]
              /\ (pc[s] # "idle" /\ pc'[s] = "idle") =>
                     /\ last'[s].op = "insert_transaction"
                     /\ last'[s].ok =>
                            /\ pc[s] = "executed"
                            /\ Tables(s)' = Tables(s)
                            /\ Len(hist'[s]) = Len(hist[s]) + 1
                            /\ Len(transactions[s])
                                   = Len(journal[s].transactions) + 1
                            /\ LastRow(transactions[s]).transaction_type
                                   = "CreateToken"
                                   => /\ Len(contracts[s])
                                             = Len(journal[s].contracts) + 1
                                      /\ LastRow(contracts[s]).transaction_id
                                             = LastRow(transactions[s]).id
                     /\ ~last'[s].ok =>
                            /\ Tables(s)' = journal[s]
                            /\ hist'[s] = hist[s]]_vars
    /\ \A s \in {1} : (pc[s] = "started") ~> (pc[s] = "idle")

\* A CreateToken unit of work whose transaction row and contract row are
\* written and which has not ended yet.
C17_Witness ==
    /\ pc[1] = "executed"
    /\ arg[1].transaction_type = "CreateToken"
    /\ Len(transactions[1]) = Len(journal[1].transactions) + 1
    /\ Len(contracts[1]) = Len(journal[1].contracts) + 1

\* The number that bytes spell, most significant byte first.
RECURSIVE BeValue(_)
BeValue(bytes) ==
    IF bytes = <<>> THEN 0
    ELSE BeValue(SubSeq(bytes, 1, Len(bytes) - 1)) * 256 + bytes[Len(bytes)]

\* C18: the buffer hashed for transaction id n is 85 bytes: 0xFF, the 20
\* bytes of the deployer, 24 zero bytes, the 8 bytes of n most significant
\* first, the 32 bytes of the hash of the init code; the address returned is
\* the last 20 bytes of the hash of that buffer; and no other id has the same
\* buffer.
C18_PreimageLayout ==
    \A s \in Stores :
        last[s].op = "derive_contract_address" =>
            LET n == last[s].arg.id
                buffer == Create2Buffer(n)
            IN /\ Len(buffer) = 85
               /\ buffer[1] = 255
               /\ SubSeq(buffer, 2, 21) = Deployer
               /\ \A i \in 22..45 : buffer[i] = 0
               /\ BeValue(SubSeq(buffer, 46, 53)) = n
               /\ SubSeq(buffer, 54, 85) = Keccak256(InitCode)
               /\ last[s].ok
               /\ last[s].rows = <<SubSeq(Keccak256(buffer), 13, 32)>>
               /\ Len(last[s].rows[1]) = 20
               /\ \A m \in DeriveIds : m # n => Create2Buffer(m) # buffer

\* The function was called with an id that takes two bytes of the salt.
C18_Witness ==
    /\ last[1].op = "derive_contract_address"
    /\ last[1].arg.id = 258
    /\ Create2Buffer(258)[52] = 1
    /\ Create2Buffer(258)[53] = 2
    /\ Len(last[1].rows[1]) = 20

\* C19: the encoding of a list is its addresses' 20 bytes one after another
\* in the order of the list, and decoding it gives the list back; a BLOB whose
\* length is no multiple of 20 fails to decode, and one that decodes encodes
\* back to itself.
C19_ListCodecRoundTrip ==
    \A s \in Stores :
        /\ last[s].op = "AddressSqliteList::to_sql" =>
               LET list == last[s].arg.data
                   blob == last[s].rows[1]
               IN /\ Len(blob) = 20 * Len(list)
                  /\ \A i \in 1..Len(list), j \in 1..20 :
                         blob[20 * (i - 1) + j] = list[i][j]
                  /\ AddressListFromSql(blob) = [ok |-> TRUE, v |-> list]
        /\ last[s].op = "AddressSqliteList::column_result" =>
               LET blob == last[s].arg.data
               IN /\ Len(blob) % 20 # 0 => (~last[s].ok /\ last[s].rows = <<>>)
                  /\ Len(blob) % 20 = 0 =>
                         /\ last[s].ok
                         /\ Len(last[s].rows[1]) * 20 = Len(blob)
                         /\ AddressListToSql(last[s].rows[1]) = blob

\* A list of three addresses, no two alike, was encoded and decodes to itself.
C19_Witness ==
    /\ last[1].op = "AddressSqliteList::to_sql"
    /\ last[1].arg.data = <<Addr(2), Deployer, Addr(1)>>
    /\ Len(last[1].rows[1]) = 60
    /\ AddressListFromSql(last[1].rows[1]).v = last[1].arg.data

\* Every row of contracts C has its CreateToken transaction among the rows of
\* transactions T: it carries that row's id, that row's sender as its one
\* signer, and the address derived from that row's id.
Provenance(T, C) ==
    \A j \in 1..Len(C) :
        \E i \in 1..Len(T) :
            /\ T[i].id = C[j].transaction_id
            /\ T[i].transaction_type = TransactionTypeToSql("CreateToken")
            /\ AddressListFromSql(C[j].signers)
                   = [ok |-> TRUE, v |-> <<AddressFromSql(T[i].sender).v>>]
            /\ C[j].address = derive_contract_address(T[i].id)

\* C20: in every reachable state each contract row comes from a CreateToken
\* transaction row of the same tables, and each committed contract row from a
\* committed one.
C20_ContractsComeFromCreateToken ==
    \A s \in Stores :
        /\ Provenance(transactions[s], contracts[s])
        /\ Provenance(Committed(s).transactions, Committed(s).contracts)

\* Two committed contracts, of two CreateToken transactions of two senders.
C20_Witness ==
    /\ Len(Committed(1).contracts) = 2
    /\ Committed(1).transactions[1].sender # Committed(1).transactions[2].sender
    /\ Committed(1).contracts[2].transaction_id = 2

\* C21: a contract of one store and a contract of another that belong to
\* transactions with the same id have the same address, whatever the senders,
\* payloads and timestamps of the two transactions; their signers are the
\* transactions' own senders.
C21_AddressDependsOnIdOnly ==
    \A i \in 1..Len(contracts[1]), j \in 1..Len(contracts[2]) :
        contracts[1][i].transaction_id = contracts[2][j].transaction_id =>
            /\ contracts[1][i].address = contracts[2][j].address
            /\ \E k \in 1..Len(transactions[1]), l \in 1..Len(transactions[2]) :
                   /\ transactions[1][k].id = contracts[1][i].transaction_id
                   /\ transactions[2][l].id = contracts[2][j].transaction_id
                   /\ contracts[1][i].signers = transactions[1][k].sender
                   /\ contracts[2][j].signers = transactions[2][l].sender

\* Both stores committed a CreateToken as their second transaction; the two
\* differ in sender, payload and timestamp, and so do the contracts' signers.
C21_Witness ==
    /\ pc[1] = "idle" /\ pc[2] = "idle"
    /\ Len(transactions[1]) = 2 /\ Len(transactions[2]) = 2
    /\ transactions[1][2].transaction_type = "CreateToken"
    /\ transactions[2][2].transaction_type = "CreateToken"
    /\ transactions[1][2].sender # transactions[2][2].sender
    /\ transactions[1][2].data # transactions[2][2].data
    /\ transactions[1][2].timestamp # transactions[2][2].timestamp
    /\ LastRow(contracts[1]).transaction_id = 2
    /\ LastRow(contracts[2]).transaction_id = 2
    /\ LastRow(contracts[1]).signers # LastRow(contracts[2]).signers
    /\ LastRow(contracts[1]).address = LastRow(contracts[2]).address

\* The errors with which the store itself fails a call.
StoreFaults ==
    {"SqliteError: begin", "SqliteError: execute", "SqliteError: commit"}

\* C22: on a store that began empty and received only inserts, no insert is
\* refused for a duplicate address or transaction_id: the trigger's row breaks
\* no UNIQUE constraint, and an insert returns an error only when the store
\* itself failed it. An insert that commits adds one transaction row, and one
\* contract row exactly when its kind is CreateToken; there are as many
\* committed contracts as committed CreateToken transactions, and the id of
\* each contract is at most its transaction_id.
C22_NoDuplicateFailures ==
    \A s \in Stores :
        LET T == Committed(s).transactions
            C == Committed(s).contracts
        IN /\ (IsInsert(s) /\ ~last[s].ok) => last[s].err \in StoreFaults
           /\ (pc[s] = "inserted" /\ TriggerWhen(LastRow(transactions[s]))) =>
                  UniqueViolation(contracts[s],
                                  TriggerRow(LastRow(transactions[s]), contracts[s],
                                             sqlite_sequence[s].contracts)) = ""
           /\ (IsInsert(s) /\ last[s].ok) =>
                  /\ Len(T) = Len(before[s].transactions) + 1
                  /\ Len(C) = Len(before[s].contracts)
                                  + (IF last[s].arg.transaction_type = "CreateToken"
                                     THEN 1 ELSE 0)
           /\ Len(C) = Cardinality({i \in 1..Len(T) :
                                        T[i].transaction_type = "CreateToken"})
           /\ \A j \in 1..Len(C) : C[j].id <= C[j].transaction_id

\* A store that began empty has committed a Mint and after it CreateToken
\* transactions only: the id of each contract is one less than its
\* transaction_id.
C22_Witness ==
    /\ pc[1] = "idle"
    /\ IsInsert(1) /\ last[1].ok
    /\ Len(transactions[1]) = MaxTx
    /\ transactions[1][1].transaction_type = "Mint"
    /\ \A i \in 2..MaxTx : transactions[1][i].transaction_type = "CreateToken"
    /\ Len(contracts[1]) = MaxTx - 1
    /\ LastRow(contracts[1]).id < LastRow(contracts[1]).transaction_id

====
